---- MODULE Spec2Model ----
(***************************************************************************)
(* Model of om2m_client/client.py: class OM2MClient, its four operations   *)
(* register_ae, create_container, create_descriptor and send_data, the     *)
(* requests they put on the wire and the way they end (return or raise).   *)
(*                                                                         *)
(* Spec    : one client, called sequentially, against a server that may    *)
(*           answer every request with any status or fail the transport.   *)
(* SpecCSE : several callers against a CSE that keeps a resource tree      *)
(*           (AE, container) and answers from it; create_container is      *)
(*           split at its two blocking requests so that callers interleave.*)
(***************************************************************************)
EXTENDS Integers, Sequences, FiniteSets, TLC

VARIABLES log, hist, last, cseAE, cseCnt, cseLog, pc, done

vars == <<log, hist, last, cseAE, cseCnt, cseLog, pc, done>>

(* ------------------------------ bounds --------------------------------- *)
MaxCalls == 3
MaxCseCalls == 2

(* --------------------------- configuration ----------------------------- *)
cse_ip == "10.0.0.5"
cse_port == 8282
cse_type == "mn"
device_name == "sensor01"
container_name == "readings"
cred == "admin:admin"

cse_name == <<cse_type, "-name">>
cse_url == <<"http://", cse_ip, ":", cse_port, "/~/", cse_name>>
ae_url == cse_url \o <<"/", device_name>>
container_url == ae_url \o <<"/", container_name>>

headers_ae == [origin |-> cred, ctype |-> <<"application/json;ty=", 2>>]
headers_cnt == [origin |-> cred, ctype |-> <<"application/json;ty=", 3>>]
headers_data == [origin |-> cred, ctype |-> <<"application/json;ty=", 4>>]

(* ----------------------- the transport (urequests) --------------------- *)
\* a request that raises instead of returning a response (no status code)
TransportError == 0
Statuses == {200, 201, 202, 404, 409, 500}
Responses == Statuses \cup {TransportError}

\* response.text, an opaque body
response_text == "<text>"

NoBody == [kind |-> "none"]
Request(m, u, h, b) == [method |-> m, url |-> u, headers |-> h, json |-> b]

(* ------------------------------ outcomes ------------------------------- *)
OM2MError == "OM2MError"
ExceptionKinds == {OM2MError, "OSError", "TypeError", "RuntimeError"}

Ok(m) == [kind |-> "ok", msg |-> <<m>>]
Raise(k, m) == [kind |-> k, msg |-> m]

\* variant: the wrapping error drops the text of the error it caught
ExceptWrap_NoCause(prefix, r) ==
    IF r.kind \in ExceptionKinds THEN Raise(OM2MError, <<prefix>>) ELSE r

\* except Exception as e: raise OM2MError(f"<prefix>: {e}")
ExceptWrap(prefix, r) ==
    IF r.kind \in ExceptionKinds THEN Raise(OM2MError, <<prefix>> \o r.msg) ELSE r

(* ------------------------------ json.dumps ----------------------------- *)
Payloads == {"v1", "temp21.5", "cyclic"}
Serializable(d) == d # "cyclic"
DumpsErrors == {"TypeError", "RuntimeError"}
dumps(d) == <<"json", d>>

(* ------------------------------ register_ae ---------------------------- *)
\* variant: the AE is posted with the container headers
register_ae_request_cnt ==
    Request("POST", cse_url, headers_cnt,
            [kind |-> "m2m:ae", rn |-> device_name, api |-> <<device_name, "_api">>,
             rr |-> TRUE, lbl |-> <<device_name>>])

register_ae_request ==
    Request("POST", cse_url, headers_ae,
            [kind |-> "m2m:ae", rn |-> device_name, api |-> <<device_name, "_api">>,
             rr |-> TRUE, lbl |-> <<device_name>>])

\* variant: 409 is not tolerated
register_ae_status_no409(r) ==
    IF r = TransportError THEN Raise("OSError", <<"transport failure">>)
    ELSE IF r = 201 THEN Ok("AE registered successfully.")
    ELSE Raise(OM2MError, <<"Failed to register AE. Status code: ", ToString(r), ", Response: ", response_text>>)

register_ae_status(r) ==
    IF r = TransportError THEN Raise("OSError", <<"transport failure">>)
    ELSE IF r = 201 THEN Ok("AE registered successfully.")
    ELSE IF r = 409 THEN Ok("AE already exists.")
    ELSE Raise(OM2MError, <<"Failed to register AE. Status code: ", ToString(r), ", Response: ", response_text>>)

register_ae(r) ==
    [reqs |-> <<register_ae_request>>,
     resps |-> <<r>>,
     out |-> ExceptWrap("Exception during AE registration: ", register_ae_status(r))]

(* ---------------------------- create_container ------------------------- *)
create_container_get == Request("GET", container_url, headers_cnt, NoBody)
\* variant: the create POST goes to the container's own URL
create_container_postreq_cnturl ==
    Request("POST", container_url, headers_cnt, [kind |-> "m2m:cnt", rn |-> container_name])

create_container_postreq ==
    Request("POST", ae_url, headers_cnt, [kind |-> "m2m:cnt", rn |-> container_name])

\* variant: no early return when the container is found
create_container_check_noreturn(r) ==
    IF r = TransportError THEN Raise("OSError", <<"transport failure">>)
    ELSE [kind |-> "continue", msg |-> <<>>]

\* the existence check: "return" ends the call, "continue" goes on to the POST
create_container_check(r) ==
    IF r = TransportError THEN Raise("OSError", <<"transport failure">>)
    ELSE IF r = 200 THEN [kind |-> "return", msg |-> <<"Container already exists.">>]
    ELSE [kind |-> "continue", msg |-> <<>>]

\* variant: 409 on the create POST is not tolerated
create_container_status_no409(r) ==
    IF r = TransportError THEN Raise("OSError", <<"transport failure">>)
    ELSE IF r = 201 THEN Ok("Container created successfully.")
    ELSE Raise(OM2MError, <<"Failed to create container. Status code: ", ToString(r), ", Response: ", response_text>>)

create_container_status(r) ==
    IF r = TransportError THEN Raise("OSError", <<"transport failure">>)
    ELSE IF r = 201 THEN Ok("Container created successfully.")
    ELSE IF r = 409 THEN Ok("Container already exists.")
    ELSE Raise(OM2MError, <<"Failed to create container. Status code: ", ToString(r), ", Response: ", response_text>>)

create_container_prefix == "Exception during container creation: "

create_container(r1, r2) ==
    LET c == create_container_check(r1) IN
    IF c.kind = "return"
    THEN [reqs |-> <<create_container_get>>, resps |-> <<r1>>, out |-> Ok(c.msg[1])]
    ELSE IF c.kind = "continue"
    THEN [reqs |-> <<create_container_get, create_container_postreq>>,
          resps |-> <<r1, r2>>,
          out |-> ExceptWrap(create_container_prefix, create_container_status(r2))]
    ELSE [reqs |-> <<create_container_get>>, resps |-> <<r1>>,
          out |-> ExceptWrap(create_container_prefix, c)]

(* ---------------------------- create_descriptor ------------------------ *)
create_descriptor_request ==
    Request("POST", ae_url, headers_cnt, [kind |-> "m2m:cnt", rn |-> "DESCRIPTOR"])

create_descriptor_status(r) ==
    IF r = TransportError THEN Raise("OSError", <<"transport failure">>)
    ELSE IF r = 201 THEN Ok("Descriptor created successfully.")
    ELSE IF r = 409 THEN Ok("Descriptor already exists.")
    ELSE Raise(OM2MError, <<"Failed to create Descriptor. Status code: ", ToString(r), ", Response: ", response_text>>)

\* variant: the descriptor is looked up before it is created
create_descriptor_precheck(r) ==
    [reqs |-> <<Request("GET", ae_url \o <<"/", "DESCRIPTOR">>, headers_cnt, NoBody),
                create_descriptor_request>>,
     resps |-> <<r>>,
     out |-> ExceptWrap("Exception during Descriptor creation: ", create_descriptor_status(r))]

create_descriptor(r) ==
    [reqs |-> <<create_descriptor_request>>,
     resps |-> <<r>>,
     out |-> ExceptWrap("Exception during Descriptor creation: ", create_descriptor_status(r))]

(* ------------------------------- send_data ----------------------------- *)
\* variant: the content instance is posted with the container headers
send_data_request_cnt(data) ==
    Request("POST", container_url, headers_cnt,
            [kind |-> "m2m:cin", cnf |-> "application/json", con |-> dumps(data)])

send_data_request(data) ==
    Request("POST", container_url, headers_data,
            [kind |-> "m2m:cin", cnf |-> "application/json", con |-> dumps(data)])

\* variant: 409 is tolerated as in the create operations
send_data_status_409(r) ==
    IF r = TransportError THEN Raise("OSError", <<"transport failure">>)
    ELSE IF r \in {200, 201, 202, 409} THEN Ok("Data uploaded successfully.")
    ELSE Raise(OM2MError, <<"Failed to upload data. Status code: ", ToString(r), ", Response: ", response_text>>)

send_data_status(r) ==
    IF r = TransportError THEN Raise("OSError", <<"transport failure">>)
    ELSE IF r \in {200, 201, 202} THEN Ok("Data uploaded successfully.")
    ELSE Raise(OM2MError, <<"Failed to upload data. Status code: ", ToString(r), ", Response: ", response_text>>)

\* the payload dict, json.dumps included, is built before the try block
send_data(data, r, e) ==
    IF ~Serializable(data)
    THEN [reqs |-> <<>>, resps |-> <<>>, out |-> Raise(e, <<"json.dumps">>)]
    ELSE [reqs |-> <<send_data_request(data)>>,
          resps |-> <<r>>,
          out |-> ExceptWrap("Exception during data upload: ", send_data_status(r))]

(* ===================== Spec: one client, any server ==================== *)
NoCall == [op |-> "none", start |-> 0, resps |-> <<>>, data |-> "none", out |-> Ok("none")]

CseIdle ==
    /\ cseAE = 0 /\ cseCnt = 0 /\ cseLog = <<>>
    /\ pc = <<>> /\ done = <<>>

Init ==
    /\ log = <<>> /\ hist = <<>> /\ last = NoCall
    /\ CseIdle

\* one call of the client: its requests go on the wire, its end is recorded
Call(op, data, res) ==
    /\ log' = log \o res.reqs
    /\ hist' = Append(hist, [op |-> op, kind |-> res.out.kind, nreq |-> Len(res.reqs)])
    /\ last' = [op |-> op, start |-> Len(log), resps |-> res.resps, data |-> data,
                out |-> res.out]

RegisterAE ==
    /\ Len(hist) < MaxCalls
    /\ \E r \in Responses : Call("register_ae", "none", register_ae(r))
    /\ UNCHANGED <<cseAE, cseCnt, cseLog, pc, done>>

CreateContainer ==
    /\ Len(hist) < MaxCalls
    /\ \E r1, r2 \in Responses :
          Call("create_container", "none", create_container(r1, r2))
    /\ UNCHANGED <<cseAE, cseCnt, cseLog, pc, done>>

CreateDescriptor ==
    /\ Len(hist) < MaxCalls
    /\ \E r \in Responses : Call("create_descriptor", "none", create_descriptor(r))
    /\ UNCHANGED <<cseAE, cseCnt, cseLog, pc, done>>

SendData ==
    /\ Len(hist) < MaxCalls
    /\ \E d \in Payloads, r \in Responses, e \in DumpsErrors :
          Call("send_data", d, send_data(d, r, e))
    /\ UNCHANGED <<cseAE, cseCnt, cseLog, pc, done>>

Next == RegisterAE \/ CreateContainer \/ CreateDescriptor \/ SendData

Spec == Init /\ [][Next]_vars

\* the requests of the most recent call
LastReqs == SubSeq(log, last.start + 1, Len(log))
LastOk == last.out.kind = "ok"
LastFailed == last.out.kind = OM2MError
Carries(msg, s) == \E i \in DOMAIN msg : msg[i] = ToString(s)
IsReq(q, m, u, ty) ==
    /\ q.method = m /\ q.url = u
    /\ q.headers.origin = cred /\ q.headers.ctype = <<"application/json;ty=", ty>>

(* ============================ claims (Spec) ============================ *)

\* C1: a create_container call whose existence-check GET is answered 200
\* completes without error and has issued exactly one request, the GET on
\* container_url; the POST to ae_url is not issued in that call.
C1_Get200NoPost ==
    (last.op = "create_container" /\ last.resps[1] = 200) =>
        /\ LastOk
        /\ Len(LastReqs) = 1
        /\ IsReq(LastReqs[1], "GET", container_url, 3)
        /\ \A i \in DOMAIN LastReqs : LastReqs[i].method # "POST"

C1_Witness ==
    /\ last.op = "create_container" /\ last.resps = <<200>>
    /\ last.start > 0 /\ LastOk

\* C2: a create_container call whose GET is answered 404 issues exactly two
\* requests, GET container_url then POST ae_url; it completes without error
\* when the POST is answered 201 or 409 and fails with OM2MError for every
\* other POST status.
C2_Get404ThenPost ==
    (last.op = "create_container" /\ last.resps[1] = 404) =>
        /\ Len(LastReqs) = 2
        /\ IsReq(LastReqs[1], "GET", container_url, 3)
        /\ IsReq(LastReqs[2], "POST", ae_url, 3)
        /\ LastReqs[2].json.rn = container_name
        /\ Len(last.resps) = 2
        /\ last.resps[2] \in {201, 409} => LastOk
        /\ last.resps[2] \notin {201, 409} => LastFailed

C2_Witness ==
    /\ last.op = "create_container" /\ last.resps = <<404, 409>>
    /\ Len(LastReqs) = 2 /\ LastOk

\* C3: a register_ae call issues exactly one POST to cse_url with the AE
\* headers; it completes without error iff the status is 201 or 409; for any
\* other status or a transport failure it fails with OM2MError, and for a
\* status s the error's message carries s.
C3_RegisterAE ==
    (last.op = "register_ae") =>
        /\ Len(LastReqs) = 1
        /\ IsReq(LastReqs[1], "POST", cse_url, 2)
        /\ LastOk <=> last.resps[1] \in {201, 409}
        /\ ~LastOk => LastFailed
        /\ (~LastOk /\ last.resps[1] # TransportError) =>
               Carries(last.out.msg, last.resps[1])

C3_Witness ==
    /\ last.op = "register_ae" /\ last.resps = <<500>>
    /\ LastFailed /\ Carries(last.out.msg, 500)

\* C4: a send_data call with a payload that serialises issues exactly one POST
\* to container_url with the data headers, whatever the outcome; it completes
\* without error iff the status is 200, 201 or 202 and fails with OM2MError for
\* every other status (409 and 500 included) and for a transport failure.
C4_SendData ==
    (last.op = "send_data" /\ Serializable(last.data)) =>
        /\ Len(LastReqs) = 1
        /\ IsReq(LastReqs[1], "POST", container_url, 4)
        /\ LastOk <=> last.resps[1] \in {200, 201, 202}
        /\ ~LastOk => LastFailed

C4_Witness ==
    /\ last.op = "send_data" /\ last.resps = <<409>>
    /\ Len(LastReqs) = 1 /\ LastFailed

\* C5: a create_descriptor call never issues a GET: it issues exactly one
\* request, a POST to ae_url with the container (ty=3) headers and resource
\* name "DESCRIPTOR"; it completes without error iff the status is 201 or 409
\* and fails with OM2MError otherwise.
C5_Descriptor ==
    (last.op = "create_descriptor") =>
        /\ Len(LastReqs) = 1
        /\ IsReq(LastReqs[1], "POST", ae_url, 3)
        /\ LastReqs[1].json.rn = "DESCRIPTOR"
        /\ LastOk <=> last.resps[1] \in {201, 409}
        /\ ~LastOk => LastFailed

C5_Witness ==
    /\ last.op = "create_descriptor" /\ last.resps = <<409>>
    /\ LastOk /\ last.start > 0

\* the statuses a request of an operation is prepared for
Expected(op, i) ==
    IF op = "send_data" THEN {200, 201, 202}
    ELSE IF op = "create_container" /\ i = 1 THEN {200, 404}
    ELSE {201, 409}

\* C6 (as claimed): every response outside the expected statuses, on any
\* request of any operation (the existence-check GET included), makes the call
\* fail with OM2MError at once: that request is the call's last one.
C6_Original ==
    \A i \in DOMAIN last.resps :
        last.resps[i] \notin Expected(last.op, i) =>
            LastFailed /\ i = Len(LastReqs)

\* C6 (amended): a transport failure on any request, and a status outside the
\* expected ones on any POST, makes the call fail with OM2MError at once with no
\* further request.  A status other than 200 on the existence-check GET is not
\* a failure: the call goes on to the POST and the POST alone decides.  A call
\* that completes without error ended on 200 for the GET, on 201 or 409 for a
\* create POST, or on 200, 201 or 202 for send_data.
C6_Amended ==
    /\ \A i \in DOMAIN last.resps :
        \/ last.resps[i] = TransportError
        \/ ~(last.op = "create_container" /\ i = 1)
              /\ last.resps[i] \notin Expected(last.op, i)
        => LastFailed /\ i = Len(LastReqs) /\ i = Len(last.resps)
    /\ (last.op = "create_container" /\ last.resps[1] \notin {200, TransportError}) =>
        /\ Len(LastReqs) = 2 /\ LastReqs[2].method = "POST"
        /\ LastOk <=> last.resps[2] \in {201, 409}
    /\ (LastOk /\ last.resps # <<>>) =>
        last.resps[Len(last.resps)] \in
            (IF last.op = "create_container" /\ Len(last.resps) = 1
             THEN {200} ELSE Expected(last.op, Len(last.resps)))

C6_Witness ==
    /\ last.op = "create_container" /\ last.resps = <<500, 201>>
    /\ Len(LastReqs) = 2 /\ LastOk

AllOk(ops) ==
    /\ Len(hist) = Len(ops)
    /\ \A i \in DOMAIN hist : hist[i].op = ops[i] /\ hist[i].kind = "ok"

Provisioning == <<"register_ae", "create_container", "send_data">>

FourRequests(l) ==
    /\ Len(l) = 4
    /\ IsReq(l[1], "POST", cse_url, 2)
    /\ IsReq(l[2], "GET", container_url, 3)
    /\ IsReq(l[3], "POST", ae_url, 3)
    /\ IsReq(l[4], "POST", container_url, 4)

ThreeRequests(l) ==
    /\ Len(l) = 3
    /\ IsReq(l[1], "POST", cse_url, 2)
    /\ IsReq(l[2], "GET", container_url, 3)
    /\ IsReq(l[3], "POST", container_url, 4)

\* C7 (as claimed): register_ae, create_container, send_data on a fresh client,
\* all three completing without error, have issued exactly four requests:
\* POST cse_url (ty=2), GET container_url (ty=3), POST ae_url (ty=3),
\* POST container_url (ty=4).
C7_Original == AllOk(Provisioning) => FourRequests(log)

\* C7 (amended): when the third of the three calls completes and all three
\* completed without error, the four requests above were issued if the
\* existence-check GET was answered with a status other than 200; if it was
\* answered 200 the POST to ae_url is absent and exactly three were issued.
C7_Amended ==
    [][ (Len(hist) = 2 /\ AllOk(Provisioning)') =>
            /\ last.op = "create_container"
            /\ last.resps[1] # 200 => FourRequests(log')
            /\ last.resps[1] = 200 => ThreeRequests(log') ]_vars

C7_Witness ==
    /\ AllOk(Provisioning) /\ FourRequests(log)
    /\ last.op = "send_data" /\ last.start = 3

\* C8: every call either returns normally or raises OM2MError; no other error
\* kind escapes, a failure to serialise the payload of send_data included.
C8_SingleErrorKind == last.out.kind \in {"ok", OM2MError}


(* ================= SpecCSE: callers against a CSE ====================== *)
Callers == {1, 2}

\* The CSE's answers, from its resource tree: the AE is created by the first
\* POST on cse_url (201) and reported as present afterwards (409); the
\* container is created under an existing AE by the first POST on ae_url (201)
\* and reported as present afterwards (409); a GET on container_url is
\* answered 200 iff the container exists; a resource or parent that does not
\* exist is answered 404.
CsePostAE == IF cseAE = 0 THEN 201 ELSE 409
CseGetCnt == IF cseAE = 1 /\ cseCnt >= 1 THEN 200 ELSE 404
CsePostCnt == IF cseAE = 0 THEN 404 ELSE IF cseCnt = 0 THEN 201 ELSE 409

Answer(c, s) == [caller |-> c, status |-> s, ae |-> cseAE, cnt |-> cseCnt]

InitCSE ==
    /\ log = <<>> /\ hist = <<>> /\ last = NoCall
    /\ cseAE \in {0, 1} /\ cseCnt \in {0, 1} /\ (cseCnt = 1 => cseAE = 1)
    /\ cseLog = <<>>
    /\ pc = [c \in Callers |-> "idle"]
    /\ done = [c \in Callers |-> <<>>]

Finish(c, op, out, first, n) ==
    done' = [done EXCEPT ![c] = Append(@, [op |-> op, kind |-> out.kind,
                                            first |-> first, nreq |-> n])]

\* register_ae by caller c: one POST, answered by the CSE
CseRegisterAE(c) ==
    /\ pc[c] = "idle" /\ Len(done[c]) < MaxCseCalls
    /\ LET s == CsePostAE
           res == register_ae(s) IN
        /\ log' = log \o res.reqs
        /\ cseLog' = Append(cseLog, Answer(c, s))
        /\ cseAE' = 1
        /\ Finish(c, "register_ae", res.out, Len(log) + 1, 1)
    /\ UNCHANGED <<hist, last, cseCnt, pc>>

\* create_container by caller c, up to the answer to its GET
CseContainerGet(c) ==
    /\ pc[c] = "idle" /\ Len(done[c]) < MaxCseCalls
    /\ LET s == CseGetCnt
           chk == create_container_check(s) IN
        /\ log' = Append(log, create_container_get)
        /\ cseLog' = Append(cseLog, Answer(c, s))
        /\ IF chk.kind = "continue"
           THEN pc' = [pc EXCEPT ![c] = "post"] /\ UNCHANGED done
           ELSE /\ pc' = pc
                /\ Finish(c, "create_container",
                          IF chk.kind = "return" THEN Ok(chk.msg[1])
                          ELSE ExceptWrap(create_container_prefix, chk),
                          Len(log) + 1, 1)
    /\ UNCHANGED <<hist, last, cseAE, cseCnt>>

\* the index in the log of the pending GET of caller c
PendingGet(c) ==
    CHOOSE i \in DOMAIN cseLog :
        /\ cseLog[i].caller = c
        /\ \A j \in DOMAIN cseLog : cseLog[j].caller = c => j <= i

\* create_container by caller c, from its POST to its end
CseContainerPost(c) ==
    /\ pc[c] = "post"
    /\ LET s == CsePostCnt IN
        /\ log' = Append(log, create_container_postreq)
        /\ cseLog' = Append(cseLog, Answer(c, s))
        /\ cseCnt' = IF s = 201 THEN cseCnt + 1 ELSE cseCnt
        /\ Finish(c, "create_container",
                  ExceptWrap(create_container_prefix, create_container_status(s)),
                  PendingGet(c), 2)
    /\ pc' = [pc EXCEPT ![c] = "idle"]
    /\ UNCHANGED <<hist, last, cseAE>>

NextCSE ==
    \E c \in Callers : CseRegisterAE(c) \/ CseContainerGet(c) \/ CseContainerPost(c)

SpecCSE == InitCSE /\ [][NextCSE]_vars

(* =========================== claims (SpecCSE) ========================== *)
Calls(op) == {<<c, k>> \in Callers \X (1..MaxCseCalls) :
                 k <= Len(done[c]) /\ done[c][k].op = op}
Call_(ck) == done[ck[1]][ck[2]]

CntPosts == {i \in DOMAIN log : IsReq(log[i], "POST", ae_url, 3)}
AEPosts == {i \in DOMAIN log : IsReq(log[i], "POST", cse_url, 2)}

\* C9: against a CSE that answers from its resource tree, every
\* create_container call started while the AE exists completes without error,
\* whatever the interleaving of the callers' GETs and POSTs; at most one POST on
\* ae_url is answered 201; and once such a call has completed the container
\* exists exactly once.
C9_ContainerRace ==
    /\ \A ck \in Calls("create_container") :
          cseLog[Call_(ck).first].ae = 1 =>
              /\ Call_(ck).kind = "ok"
              /\ cseCnt = 1
    /\ Cardinality({i \in CntPosts : cseLog[i].status = 201}) <= 1

\* both callers saw 404 on their GET before either POST, then both POSTed
C9_Witness ==
    /\ Len(log) >= 4
    /\ \E i \in DOMAIN log :
        /\ i + 3 <= Len(log)
        /\ log[i].method = "GET" /\ log[i+1].method = "GET"
        /\ cseLog[i].status = 404 /\ cseLog[i+1].status = 404
        /\ cseLog[i].ae = 1 /\ cseLog[i].caller # cseLog[i+1].caller
        /\ i + 2 \in CntPosts /\ i + 3 \in CntPosts
        /\ cseLog[i+2].status = 201 /\ cseLog[i+3].status = 409
    /\ \A c \in Callers : pc[c] = "idle" /\ done[c] # <<>>
          /\ done[c][Len(done[c])].op = "create_container"
          /\ done[c][Len(done[c])].kind = "ok"

\* C10: every register_ae call completes without error and issues its own
\* POST on cse_url; the POST that finds the AE absent is answered 201, every
\* later one is answered 409, and after any register_ae call exactly one AE
\* exists.
C10_RegisterIdempotent ==
    /\ \A ck \in Calls("register_ae") :
          /\ Call_(ck).kind = "ok"
          /\ Call_(ck).first \in AEPosts
          /\ cseAE = 1
    /\ Cardinality(AEPosts) = Cardinality(Calls("register_ae"))
    /\ \A ck1, ck2 \in Calls("register_ae") :
          ck1 # ck2 => Call_(ck1).first # Call_(ck2).first
    /\ \A i \in AEPosts :
          /\ cseLog[i].status = (IF cseLog[i].ae = 0 THEN 201 ELSE 409)
          /\ \A j \in AEPosts : j > i => cseLog[j].status = 409

C10_Witness ==
    /\ Cardinality(AEPosts) >= 3
    /\ \E i \in AEPosts : cseLog[i].status = 201 /\ cseLog[i].ae = 0
    /\ \E c \in Callers : Len(done[c]) = 2
          /\ done[c][1].op = "register_ae" /\ done[c][2].op = "register_ae"
          /\ done[c][2].kind = "ok" /\ cseLog[done[c][2].first].status = 409
====
